---- MODULE Spec2Model ----
(***************************************************************************)
(* FileStorage (will/storage/file_storage.py): a key-value store keeping   *)
(* one file per key in a directory it owns, with an optional companion     *)
(* expiry file per key.                                                    *)
(*                                                                         *)
(* The state is the store directory (existence, permission bits, regular   *)
(* files with their contents, subdirectories), the wall clock, and a       *)
(* record of the operation that ran last.  File contents and arguments     *)
(* are texts: sequences of one-character strings.  The clock counts        *)
(* 1/ClockRes seconds, so that time.time() can read between two integer    *)
(* seconds.  Filesystem failures (permissions, disk full, a subdirectory   *)
(* standing where a key's file should be) are outside the model: the       *)
(* subdirectory names are disjoint from the key paths.  File timestamps    *)
(* are not part of the state.                                              *)
(*                                                                         *)
(* Spec runs the operations one after the other.  SpecAudit is the same    *)
(* with each key's history recorded, SpecMap restricts the keys to ones    *)
(* whose paths do not collide, and SpecConc runs two calls of save or      *)
(* load that are not serialized, one filesystem call at a time.            *)
(***************************************************************************)
EXTENDS Integers, Sequences, FiniteSets, TLC

\* ---- bounds ----
MaxExpire == 1
ClockRes == 2
MaxNow == 3

\* ---- texts ----
Digits == <<"0", "1", "2", "3", "4", "5", "6", "7", "8", "9">>

DigitChars == {Digits[i] : i \in 1..Len(Digits)}

DigitVal(c) == CHOOSE d \in 0..9 : Digits[d + 1] = c

\* str(n) of a non-negative integer: the decimal text the caller hands to save
RECURSIVE Str(_)
Str(n) ==
  IF n < 10 THEN <<Digits[n + 1]>>
  ELSE Str(n \div 10) \o <<Digits[(n % 10) + 1]>>

\* the characters int() skips: space, tab, newline, carriage return, form
\* feed and vertical tab (the last has no escape and stands as itself)
Whitespace == {" ", "\t", "\n", "\r", "\f", ""}

Signs == {"+", "-"}

RECURSIVE LStrip(_)
LStrip(t) == IF Len(t) > 0 /\ t[1] \in Whitespace THEN LStrip(Tail(t)) ELSE t

RECURSIVE RStrip(_)
RStrip(t) ==
  IF Len(t) > 0 /\ t[Len(t)] \in Whitespace THEN RStrip(SubSeq(t, 1, Len(t) - 1)) ELSE t

\* the text without the whitespace around it and without its sign (and the
\* whitespace after the sign)
Unsigned(t) ==
  LET s == LStrip(t)
  IN RStrip(IF Len(s) > 0 /\ s[1] \in Signs THEN LStrip(Tail(s)) ELSE s)

IsNegative(t) == LET s == LStrip(t) IN Len(s) > 0 /\ s[1] = "-"

RECURSIVE DigitsVal(_)
DigitsVal(t) ==
  IF Len(t) = 0 THEN 0
  ELSE 10 * DigitsVal(SubSeq(t, 1, Len(t) - 1)) + DigitVal(t[Len(t)])

\* int(text) succeeds on a non-empty run of decimal digits with an optional
\* sign before it and whitespace around it
IsIntText(t) ==
  LET u == Unsigned(t) IN Len(u) > 0 /\ \A i \in 1..Len(u) : u[i] \in DigitChars

IntOf(t) == IF IsNegative(t) THEN 0 - DigitsVal(Unsigned(t)) ELSE DigitsVal(Unsigned(t))

\* Python's None and a present value
None == [some |-> FALSE, val |-> <<>>]

Some(t) == [some |-> TRUE, val |-> t]

\* ---- inputs ----
Keys == {"a", ".a.expires", ".will_settings"}

\* keys none of which is the marker name or the expiry-file name of another
MapKeys == {"a", "b"}

AllKeys == Keys \cup MapKeys

Values == {<<>>, <<"0", "1">>}

ExpireTexts == {Str(e) : e \in 1..MaxExpire}

Expires == {None} \cup {Some(t) : t \in ExpireTexts}

SubdirNames == {"sub"}

OwnerOnly == 448

InitModes == {OwnerOnly, 493}

\* the umask of the process: 022, 077, 0277
Umasks == {18, 63, 191}

Times == 0..MaxNow

\* ---- paths ----
dotfile == ".will_settings"

key_path(key) == key

expire_path(key) == "." \o key \o ".expires"

\* ---- filesystem primitives on a directory d = [exists, mode, files, subdirs] ----
listdir(d) == DOMAIN d.files \cup d.subdirs

path_exists(d, p) == d.exists /\ p \in listdir(d)

isfile(d, p) == d.exists /\ p \in DOMAIN d.files

write_file(d, p, t) ==
  [d EXCEPT !.files = [q \in DOMAIN d.files \cup {p} |-> IF q = p THEN t ELSE d.files[q]]]

\* mutant: the marker is opened for writing, which truncates it
append_open_truncates(d, p) == write_file(d, p, <<>>)

append_open(d, p) == IF isfile(d, p) THEN d ELSE write_file(d, p, <<>>)

unlink(d, p) ==
  [d EXCEPT !.files = [q \in DOMAIN d.files \ {p} |-> d.files[q]]]

\* m & ~mask on permission bits
RECURSIVE AndNot(_, _)
AndNot(m, mask) ==
  IF m = 0 THEN 0
  ELSE 2 * AndNot(m \div 2, mask \div 2) + (IF m % 2 = 1 /\ mask % 2 = 0 THEN 1 ELSE 0)

\* the new directory gets the mode asked for, less the bits of the umask
makedirs(d, m, umask) ==
  [exists |-> TRUE, mode |-> AndNot(m, umask), files |-> <<>>, subdirs |-> {}]

chmod(d, m) == [d EXCEPT !.mode = m]

NoDir == [exists |-> FALSE, mode |-> 0, files |-> <<>>, subdirs |-> {}]

\* ---- FileStorage ----
all_setting_files(d) == {p \in listdir(d) : isfile(d, p)}

Outcome(d, status, ret, branch) ==
  [fs |-> d, status |-> status, ret |-> ret, branch |-> branch, total |-> 0]

\* mutant: the marker test is inverted
init_rejects_inverted(d) ==
  /\ d.exists
  /\ path_exists(d, dotfile)
  /\ Cardinality(all_setting_files(d)) > 0

\* mutant: the marker is not consulted
init_rejects_marked(d) ==
  /\ d.exists
  /\ Cardinality(all_setting_files(d)) > 0

init_rejects(d) ==
  /\ d.exists
  /\ ~path_exists(d, dotfile)
  /\ Cardinality(all_setting_files(d)) > 0

\* mutant: the permission bits are set before the directory is examined
init_chmod_first(d, umask) ==
  IF init_rejects(d)
  THEN Outcome(chmod(d, OwnerOnly), "FileStorageException", None, "rejected")
  ELSE LET d1 == IF ~d.exists THEN makedirs(d, OwnerOnly, umask) ELSE d
           d2 == chmod(d1, OwnerOnly)
           d3 == append_open(d2, dotfile)
       IN Outcome(d3, "ok", None,
                  IF ~d.exists THEN "created"
                  ELSE IF path_exists(d, dotfile) THEN "reopened" ELSE "claimed")

init(d, umask) ==
  IF init_rejects(d)
  THEN Outcome(d, "FileStorageException", None, "rejected")
  ELSE LET d1 == IF ~d.exists THEN makedirs(d, OwnerOnly, umask) ELSE d
           d2 == chmod(d1, OwnerOnly)
           d3 == append_open(d2, dotfile)
       IN Outcome(d3, "ok", None,
                  IF ~d.exists THEN "created"
                  ELSE IF path_exists(d, dotfile) THEN "reopened" ELSE "claimed")

\* mutant: an overwrite without expiration leaves the old expiry file in place
save_keeps_expiry(d, key, value, expire) ==
  LET d1 == write_file(d, key_path(key), value)
      d2 == IF expire # None THEN write_file(d1, expire_path(key), expire.val) ELSE d1
  IN Outcome(d2, "ok", None, IF expire # None THEN "expiring" ELSE "plain")

save(d, key, value, expire) ==
  LET d1 == write_file(d, key_path(key), value)
      d2 == IF expire # None THEN write_file(d1, expire_path(key), expire.val)
            ELSE IF path_exists(d1, expire_path(key)) THEN unlink(d1, expire_path(key))
            ELSE d1
  IN Outcome(d2, "ok", None, IF expire # None THEN "expiring" ELSE "plain")

\* mutant: the expiry file is left behind
clear_keeps_expiry(d, key) ==
  LET d1 == IF path_exists(d, key_path(key)) THEN unlink(d, key_path(key)) ELSE d
  IN Outcome(d1, "ok", None, IF d1 = d THEN "noop" ELSE "removed")

\* mutant: the value file is unlinked without testing that it exists
clear_unchecked(d, key) ==
  IF ~path_exists(d, key_path(key)) THEN Outcome(d, "OSError", None, "noop")
  ELSE LET d1 == unlink(d, key_path(key))
           d2 == IF path_exists(d1, expire_path(key)) THEN unlink(d1, expire_path(key)) ELSE d1
       IN Outcome(d2, "ok", None, "removed")

clear(d, key) ==
  LET d1 == IF path_exists(d, key_path(key)) THEN unlink(d, key_path(key)) ELSE d
      d2 == IF path_exists(d1, expire_path(key)) THEN unlink(d1, expire_path(key)) ELSE d1
  IN Outcome(d2, "ok", None, IF d2 = d THEN "noop" ELSE "removed")

RECURSIVE unlink_all(_, _)
unlink_all(d, ps) ==
  IF ps = {} THEN d
  ELSE LET p == CHOOSE q \in ps : TRUE IN unlink_all(unlink(d, p), ps \ {p})

\* mutant: the marker is spared
clear_all_keys_spares_dotfile(d) ==
  Outcome(unlink_all(d, all_setting_files(d) \ {dotfile}), "ok", None,
          IF all_setting_files(d) = {} THEN "noop" ELSE "all")

clear_all_keys(d) ==
  Outcome(unlink_all(d, all_setting_files(d)), "ok", None,
          IF all_setting_files(d) = {} THEN "noop" ELSE "all")

\* mutant: a timestamp equal to the clock reading counts as expired
is_expired_inclusive(t, expire_at) == t >= ClockRes * IntOf(expire_at)

\* time.time() > int(expire_at), the clock reading t in 1/ClockRes seconds
is_expired(t, expire_at) == t > ClockRes * IntOf(expire_at)

read_value(d, key) ==
  IF path_exists(d, key_path(key))
  THEN Outcome(d, "ok", Some(d.files[key_path(key)]), "hit")
  ELSE Outcome(d, "ok", None, "miss")

\* mutant: an expired key is reported absent but its files are kept
load_keeps_expired(d, key, t) ==
  IF path_exists(d, expire_path(key))
  THEN LET expire_at == d.files[expire_path(key)]
       IN IF ~IsIntText(expire_at) THEN Outcome(d, "ValueError", None, "badexpiry")
          ELSE IF is_expired(t, expire_at)
               THEN Outcome(d, "ok", None, "expired")
               ELSE read_value(d, key)
  ELSE read_value(d, key)

\* mutant: an expired key takes every file of the directory with it
load_expired_clears_all(d, key, t) ==
  IF path_exists(d, expire_path(key))
  THEN LET expire_at == d.files[expire_path(key)]
       IN IF ~IsIntText(expire_at) THEN Outcome(d, "ValueError", None, "badexpiry")
          ELSE IF is_expired(t, expire_at)
               THEN Outcome(clear_all_keys(d).fs, "ok", None, "expired")
               ELSE read_value(d, key)
  ELSE read_value(d, key)

load(d, key, t) ==
  IF path_exists(d, expire_path(key))
  THEN LET expire_at == d.files[expire_path(key)]
       IN IF ~IsIntText(expire_at) THEN Outcome(d, "ValueError", None, "badexpiry")
          ELSE IF is_expired(t, expire_at)
               THEN Outcome(clear(d, key).fs, "ok", None, "expired")
               ELSE read_value(d, key)
  ELSE read_value(d, key)

\* os.path.getsize: one byte per character of the text
getsize(d, p) == Len(d.files[p])

RECURSIVE sum_sizes(_, _)
sum_sizes(d, ps) ==
  IF ps = {} THEN 0
  ELSE LET p == CHOOSE q \in ps : TRUE IN getsize(d, p) + sum_sizes(d, ps \ {p})

\* mutant: the hidden files (marker, expiry files) are left out of the sum
size_skips_expiry(d) ==
  [Outcome(d, "ok", None, "size") EXCEPT
     !.total = sum_sizes(d, all_setting_files(d) \ {expire_path(k) : k \in Keys})]

\* size(): total is the byte count handed to sizeof_fmt (will.utils), whose
\* formatting is outside this source file
size(d) ==
  [Outcome(d, "ok", None, "size") EXCEPT !.total = sum_sizes(d, all_setting_files(d))]

\* ---- state ----
VARIABLES fs, now, handle, last, entries, audit, procs

vars == <<fs, now, handle, last, entries, audit, procs>>

\* the entry the callers' history gives a key: the most recent save not
\* cleared or expired-on-load since
\* (over: that save, given no expiration, replaced an entry that had one)
\* (lapsed: a load found the entry expired, and the key was not saved since)
\* over and lapsed are recorded in audited runs only (audit = TRUE)
NoEntry ==
  [present |-> FALSE, value |-> <<>>, expire |-> None, over |-> FALSE, lapsed |-> FALSE]

Entry(value, expire, over) ==
  [present |-> TRUE, value |-> value, expire |-> expire, over |-> over, lapsed |-> FALSE]

Gone(entry) == [NoEntry EXCEPT !.lapsed = entry.lapsed]

Lapsed == [NoEntry EXCEPT !.lapsed = audit]

NoKey == ""

Op(op, key, value, expire, r, after) ==
  [op |-> op, key |-> key, value |-> value, expire |-> expire,
   status |-> r.status, ret |-> r.ret, branch |-> r.branch, total |-> r.total,
   after |-> after]

NoOp == Op("none", NoKey, <<>>, None, Outcome(NoDir, "ok", None, "none"), "other")

\* how the operation that ran last relates to one that follows it on key
After(key) ==
  IF last.key # key THEN "other"
  ELSE IF last.op = "save" THEN (IF last.expire = None THEN "save_plain" ELSE "save_expiring")
  ELSE IF last.op = "clear" THEN "clear"
  ELSE "other"

InitDirs ==
  {NoDir} \cup
  { [exists |-> TRUE, mode |-> m, files |-> f, subdirs |-> s] :
      m \in InitModes, s \in SUBSET SubdirNames,
      f \in { <<>>,
              [p \in {dotfile} |-> <<>>],
              [p \in {key_path("a")} |-> <<"0", "1">>],
              [p \in {dotfile, key_path("a")} |-> <<"0", "1">>] } }

InitState ==
  /\ fs \in InitDirs
  /\ now = 0
  /\ handle = FALSE
  /\ last = NoOp
  /\ entries = [k \in AllKeys |-> NoEntry]
  /\ procs = <<>>

Init == InitState /\ audit = FALSE

InitAudit == InitState /\ audit = TRUE

Initialize ==
  \E umask \in Umasks :
    LET r == init(fs, umask)
    IN /\ fs' = r.fs
       /\ handle' = (handle \/ r.status = "ok")
       /\ last' = Op("init", NoKey, <<>>, None, r, "other")
       /\ UNCHANGED <<now, entries, audit, procs>>

Save(key, value, expire) ==
  LET r == save(fs, key, value, expire)
  IN /\ handle
     /\ fs' = r.fs
     /\ last' = Op("save", key, value, expire, r, After(key))
     /\ entries' = [entries EXCEPT ![key] =
                       Entry(value, expire,
                             audit /\ expire = None /\ entries[key].expire # None)]
     /\ UNCHANGED <<now, handle, audit, procs>>

Clear(key) ==
  LET r == clear(fs, key)
  IN /\ handle
     /\ fs' = r.fs
     /\ last' = Op("clear", key, <<>>, None, r, After(key))
     /\ entries' = [entries EXCEPT ![key] = Gone(entries[key])]
     /\ UNCHANGED <<now, handle, audit, procs>>

ClearAll ==
  LET r == clear_all_keys(fs)
  IN /\ handle
     /\ fs' = r.fs
     /\ last' = Op("clear_all_keys", NoKey, <<>>, None, r, "other")
     /\ entries' = [k \in AllKeys |-> Gone(entries[k])]
     /\ UNCHANGED <<now, handle, audit, procs>>

Load(key) ==
  LET r == load(fs, key, now)
  IN /\ handle
     /\ fs' = r.fs
     /\ last' = Op("load", key, <<>>, None, r, After(key))
     /\ entries' = IF r.branch = "expired" THEN [entries EXCEPT ![key] = Lapsed]
                   ELSE entries
     /\ UNCHANGED <<now, handle, audit, procs>>

\* what size() follows
AfterForSize ==
  IF last.op = "save" THEN (IF last.expire = None THEN "save_plain" ELSE "save_expiring")
  ELSE IF last.op = "clear_all_keys" THEN "clear_all_keys"
  ELSE "other"

Size ==
  LET r == size(fs)
  IN /\ handle
     /\ fs' = r.fs
     /\ last' = Op("size", NoKey, <<>>, None, r, AfterForSize)
     /\ UNCHANGED <<now, handle, entries, audit, procs>>

\* the wall clock reads any value: it is not monotonic
SetClock ==
  /\ \E t \in Times : t # now /\ now' = t
  /\ UNCHANGED <<fs, handle, last, entries, audit, procs>>

Next ==
  \/ Initialize
  \/ \E key \in Keys, value \in Values, expire \in Expires : Save(key, value, expire)
  \/ \E key \in Keys : Clear(key)
  \/ ClearAll
  \/ \E key \in Keys : Load(key)
  \/ Size
  \/ SetClock

Spec == Init /\ [][Next]_vars

\* the entry the files of a key stand for
AbsEntry(d, key) ==
  IF isfile(d, key_path(key))
  THEN Entry(d.files[key_path(key)],
             IF isfile(d, expire_path(key)) THEN Some(d.files[expire_path(key)]) ELSE None,
             FALSE)
  ELSE NoEntry

\* the calls of an application whose keys are MapKeys, on a directory whose
\* files are the entries an earlier run left
InitMap ==
  /\ fs \in InitDirs
  /\ now = 0
  /\ handle = FALSE
  /\ last = NoOp
  /\ entries = [k \in AllKeys |-> IF k \in MapKeys THEN AbsEntry(fs, k) ELSE NoEntry]
  /\ audit = FALSE
  /\ procs = <<>>

NextMap ==
  \/ Initialize
  \/ \E key \in MapKeys, value \in Values, expire \in Expires : Save(key, value, expire)
  \/ \E key \in MapKeys : Clear(key)
  \/ ClearAll
  \/ \E key \in MapKeys : Load(key)
  \/ Size
  \/ SetClock

SpecMap == InitMap /\ [][NextMap]_vars

\* the same calls, with the history of each key recorded in full
SpecAudit == InitAudit /\ [][Next]_vars

\* ---- callers that are not serialized ----
\* Two callers (threads of one process, or two processes on one directory)
\* each run one call; the calls advance one filesystem call at a time.
Procs == {1, 2}

ConcKey == "a"

ConcValues == {<<"1">>, <<"0", "1">>}

NUL == "NUL"

\* a write of piece at offset pos of a file holding content
pwrite(content, pos, piece) ==
  LET n == IF Len(content) > pos + Len(piece) THEN Len(content) ELSE pos + Len(piece)
  IN [i \in 1..n |->
        IF i > pos /\ i <= pos + Len(piece) THEN piece[i - pos]
        ELSE IF i <= Len(content) THEN content[i]
        ELSE NUL]

\* mutant: the old file is removed and a new one appears with the first write
open_w_replaces(d, p) == unlink(d, p)

\* open(path, 'w'): the file is created empty or truncated
open_w(d, p) == write_file(d, p, <<>>)

Call(op, key, value, expire, d) ==
  [op |-> op, key |-> key, value |-> value, expire |-> expire,
   pc |-> IF op = "save" THEN "open_value" ELSE "test_expire",
   status |-> "ok", ret |-> None, expire_at |-> <<>>,
   rest |-> <<>>, pos |-> 0, open |-> "", orphan |-> FALSE, held |-> <<>>,
   buf |-> <<>>,
   before |-> AbsEntry(d, key)]

ConcCalls(d) ==
  {Call("save", ConcKey, v, e, d) : v \in ConcValues, e \in Expires}
    \cup {Call("load", ConcKey, <<>>, None, d)}

ConcDirs ==
  { [exists |-> TRUE, mode |-> OwnerOnly, files |-> f, subdirs |-> {}] :
      f \in { [p \in {dotfile} |-> <<>>] }
            \cup { [p \in {dotfile, key_path(ConcKey)} |-> IF p = dotfile THEN <<>> ELSE v] :
                     v \in ConcValues }
            \cup { [p \in {dotfile, key_path(ConcKey), expire_path(ConcKey)} |->
                      IF p = dotfile THEN <<>>
                      ELSE IF p = key_path(ConcKey) THEN v ELSE t] :
                     v \in ConcValues, t \in ExpireTexts } }

InitConc ==
  /\ fs \in ConcDirs
  /\ now \in Times
  /\ handle = TRUE
  /\ last = NoOp
  /\ entries = [k \in AllKeys |-> NoEntry]
  /\ audit = FALSE
  /\ procs \in [Procs -> ConcCalls(fs)]

Frame == UNCHANGED <<now, handle, last, entries, audit>>

Finish(p, status, ret) ==
  [procs EXCEPT ![p].pc = "done", ![p].status = status, ![p].ret = ret, ![p].open = ""]

\* os.unlink(path) by p: a caller that holds the file open keeps the removed
\* file, which no path names any more; a reader still reads what it held
Unlinked(ps, p, path) ==
  [q \in DOMAIN ps |->
     IF q # p /\ ps[q].open = path /\ ~ps[q].orphan
     THEN [ps[q] EXCEPT !.orphan = TRUE,
                        !.held = IF ps[q].op = "load" THEN fs.files[path] ELSE <<>>]
     ELSE ps[q]]

\* open(path, 'r') as the step at pc, going on to next; IOError when another
\* caller removed the file after the test that it exists
OpenRead(p, pc, path, next) ==
  /\ procs[p].pc = pc
  /\ procs' = IF isfile(fs, path)
              THEN [procs EXCEPT ![p].pc = next, ![p].open = path, ![p].pos = 0,
                                 ![p].buf = <<>>, ![p].orphan = FALSE, ![p].held = <<>>]
              ELSE Finish(p, "IOError", None)
  /\ fs' = fs
  /\ Frame

\* what the file that was opened holds, at this moment, from the position
\* of the caller to its end
Remainder(p) ==
  LET content == IF procs[p].orphan THEN procs[p].held ELSE fs.files[procs[p].open]
  IN SubSeq(content, procs[p].pos + 1, Len(content))

\* the texts one read() of the open file can return: nothing at the end of
\* the file, and otherwise at most one block of the remainder.  The texts
\* here stand for texts of any length, a block for any number of their
\* characters: a read returns a non-empty prefix of the remainder, all of it
\* when the file is shorter than a block
FileRead(p) ==
  IF Remainder(p) = <<>> THEN {<<>>}
  ELSE {SubSeq(Remainder(p), 1, n) : n \in 1..Len(Remainder(p))}

\* f.read() as the step at pc: read() is called until it returns nothing,
\* and the texts it returned, put together, are the result
ReadStep(p, pc) ==
  /\ procs[p].pc = pc
  /\ \E piece \in FileRead(p) :
       /\ piece # <<>>
       /\ procs' = [procs EXCEPT ![p].buf = procs[p].buf \o piece,
                                 ![p].pos = procs[p].pos + Len(piece)]
  /\ fs' = fs
  /\ Frame

\* the end of a with block that read a file: the file is closed
CloseRead(p, pc, next) ==
  /\ procs[p].pc = pc
  /\ procs' = [procs EXCEPT ![p].pc = next, ![p].open = "", ![p].pos = 0,
                            ![p].orphan = FALSE, ![p].held = <<>>]
  /\ fs' = fs
  /\ Frame

\* save, line 64: open(key_path, 'w')
OpenValue(p) ==
  /\ procs[p].pc = "open_value"
  /\ fs' = open_w(fs, key_path(procs[p].key))
  /\ procs' = [procs EXCEPT ![p].pc = "write_value", ![p].rest = procs[p].value,
                            ![p].pos = 0, ![p].open = key_path(procs[p].key),
                            ![p].orphan = FALSE]
  /\ Frame

\* save, line 68: open(expire_path, 'w')
OpenExpire(p) ==
  /\ procs[p].pc = "open_expire"
  /\ fs' = open_w(fs, expire_path(procs[p].key))
  /\ procs' = [procs EXCEPT ![p].pc = "write_expire", ![p].rest = procs[p].expire.val,
                            ![p].pos = 0, ![p].open = expire_path(procs[p].key),
                            ![p].orphan = FALSE]
  /\ Frame

\* f.write and the end of the with block: the buffered text reaches the file
\* in one write or in several; then the file is closed
WriteOrClose(p, pc, next) ==
  /\ procs[p].pc = pc
  /\ IF procs[p].rest = <<>>
     THEN /\ procs' = [procs EXCEPT ![p].pc = next, ![p].open = "", ![p].orphan = FALSE]
          /\ fs' = fs
     ELSE \E n \in 1..Len(procs[p].rest) :
            LET piece == SubSeq(procs[p].rest, 1, n)
                path == procs[p].open
            IN /\ fs' = IF procs[p].orphan THEN fs
                        ELSE write_file(fs, path,
                               pwrite(IF isfile(fs, path) THEN fs.files[path] ELSE <<>>,
                                      procs[p].pos, piece))
               /\ procs' = [procs EXCEPT
                              ![p].rest = SubSeq(procs[p].rest, n + 1, Len(procs[p].rest)),
                              ![p].pos = procs[p].pos + n]
  /\ Frame

WriteValue(p) ==
  WriteOrClose(p, "write_value",
               IF procs[p].expire # None THEN "open_expire" ELSE "save_test_expire")

WriteExpire(p) == WriteOrClose(p, "write_expire", "done")

\* save, line 70: os.path.exists(expire_path)
SaveTestExpire(p) ==
  /\ procs[p].pc = "save_test_expire"
  /\ procs' = [procs EXCEPT ![p].pc =
                 IF path_exists(fs, expire_path(procs[p].key)) THEN "save_unlink_expire"
                 ELSE "done"]
  /\ fs' = fs
  /\ Frame

\* os.unlink(path) as the step at pc, going on to next; OSError when another
\* caller removed the file first
UnlinkStep(p, pc, path, next) ==
  /\ procs[p].pc = pc
  /\ IF path_exists(fs, path)
     THEN /\ fs' = unlink(fs, path)
          /\ procs' = IF next = "done" THEN Unlinked(Finish(p, "ok", None), p, path)
                      ELSE Unlinked([procs EXCEPT ![p].pc = next], p, path)
     ELSE /\ fs' = fs
          /\ procs' = Finish(p, "OSError", None)
  /\ Frame

\* save, line 71
SaveUnlinkExpire(p) ==
  UnlinkStep(p, "save_unlink_expire", expire_path(procs[p].key), "done")

\* load, line 87: os.path.exists(expire_path)
LoadTestExpire(p) ==
  /\ procs[p].pc = "test_expire"
  /\ procs' = [procs EXCEPT ![p].pc =
                 IF path_exists(fs, expire_path(procs[p].key)) THEN "open_expire_r"
                 ELSE "test_value"]
  /\ fs' = fs
  /\ Frame

\* load, line 88: open(expire_path, 'r')
LoadOpenExpire(p) ==
  OpenRead(p, "open_expire_r", expire_path(procs[p].key), "read_expire")

\* load, line 89: expire_at = f.read()
LoadReadExpire(p) ==
  \/ ReadStep(p, "read_expire")
  \/ /\ procs[p].pc = "read_expire"
     /\ <<>> \in FileRead(p)
     /\ procs' = [procs EXCEPT ![p].pc = "close_expire", ![p].expire_at = procs[p].buf,
                               ![p].buf = <<>>]
     /\ fs' = fs
     /\ Frame

\* load, line 89: the with block ends
LoadCloseExpire(p) == CloseRead(p, "close_expire", "compare")

\* load, line 90: time.time() > int(expire_at)
LoadCompare(p) ==
  /\ procs[p].pc = "compare"
  /\ procs' = IF ~IsIntText(procs[p].expire_at) THEN Finish(p, "ValueError", None)
              ELSE IF is_expired(now, procs[p].expire_at)
                   THEN [procs EXCEPT ![p].pc = "clear_test_value"]
                   ELSE [procs EXCEPT ![p].pc = "test_value"]
  /\ fs' = fs
  /\ Frame

\* load, line 92: self.clear(key), lines 75-78
ClearTestValue(p) ==
  /\ procs[p].pc = "clear_test_value"
  /\ procs' = [procs EXCEPT ![p].pc =
                 IF path_exists(fs, key_path(procs[p].key)) THEN "clear_unlink_value"
                 ELSE "clear_test_expire"]
  /\ fs' = fs
  /\ Frame

ClearUnlinkValue(p) ==
  UnlinkStep(p, "clear_unlink_value", key_path(procs[p].key), "clear_test_expire")

ClearTestExpire(p) ==
  /\ procs[p].pc = "clear_test_expire"
  /\ procs' = IF path_exists(fs, expire_path(procs[p].key))
              THEN [procs EXCEPT ![p].pc = "clear_unlink_expire"]
              ELSE Finish(p, "ok", None)
  /\ fs' = fs
  /\ Frame

ClearUnlinkExpire(p) ==
  UnlinkStep(p, "clear_unlink_expire", expire_path(procs[p].key), "done")

\* load, line 95: os.path.exists(key_path)
LoadTestValue(p) ==
  /\ procs[p].pc = "test_value"
  /\ procs' = IF path_exists(fs, key_path(procs[p].key))
              THEN [procs EXCEPT ![p].pc = "open_value_r"]
              ELSE Finish(p, "ok", None)
  /\ fs' = fs
  /\ Frame

\* load, line 96: open(key_path, 'r')
LoadOpenValue(p) ==
  OpenRead(p, "open_value_r", key_path(procs[p].key), "read_value")

\* load, line 97: f.read(), the value load returns
LoadReadValue(p) ==
  \/ ReadStep(p, "read_value")
  \/ /\ procs[p].pc = "read_value"
     /\ <<>> \in FileRead(p)
     /\ procs' = [procs EXCEPT ![p].pc = "close_value", ![p].ret = Some(procs[p].buf),
                               ![p].buf = <<>>]
     /\ fs' = fs
     /\ Frame

\* load, line 97: the with block ends and load returns
LoadCloseValue(p) ==
  /\ procs[p].pc = "close_value"
  /\ procs' = [Finish(p, "ok", procs[p].ret) EXCEPT ![p].pos = 0, ![p].orphan = FALSE,
                                                    ![p].held = <<>>]
  /\ fs' = fs
  /\ Frame

ClockMoves ==
  /\ \E t \in Times : t # now /\ now' = t
  /\ UNCHANGED <<fs, handle, last, entries, audit, procs>>

NextConc ==
  \/ \E p \in Procs :
       \/ OpenValue(p) \/ WriteValue(p) \/ OpenExpire(p) \/ WriteExpire(p)
       \/ SaveTestExpire(p) \/ SaveUnlinkExpire(p)
       \/ LoadTestExpire(p) \/ LoadOpenExpire(p) \/ LoadReadExpire(p)
       \/ LoadCloseExpire(p) \/ LoadCompare(p)
       \/ ClearTestValue(p) \/ ClearUnlinkValue(p)
       \/ ClearTestExpire(p) \/ ClearUnlinkExpire(p)
       \/ LoadTestValue(p) \/ LoadOpenValue(p) \/ LoadReadValue(p) \/ LoadCloseValue(p)
  \/ ClockMoves

SpecConc == InitConc /\ [][NextConc]_vars

\* ---- claims ----

\* a step that is the call named (the record of the call is looked at first)
LoadStep(key) == last'.op = "load" /\ last'.key = key /\ Load(key)

ClearStep(key) == last'.op = "clear" /\ last'.key = key /\ Clear(key)

InitStep == last'.op = "init" /\ Initialize

ClearAllStep == last'.op = "clear_all_keys" /\ ClearAll

SizeStep == last'.op = "size" /\ Size

SaveStep(key) ==
  /\ last'.op = "save" /\ last'.key = key
  /\ \E value \in Values, expire \in Expires : Save(key, value, expire)

\* C1: a save(k, v) with no expiration immediately followed by load(k)
\* returns exactly v, whatever k held before and whatever the clock reads.
C1_RoundTrip ==
  [][\A key \in Keys :
       (last.op = "save" /\ last.key = key /\ last.expire = None /\ LoadStep(key))
         => (last'.status = "ok" /\ last'.ret = Some(last.value))]_vars

C1_Witness ==
  last.op = "load" /\ last.after = "save_plain" /\ last.ret = Some(<<>>)
\* C2: for every key, the expiry file exists exactly when the key has an
\* expiration: its most recent save was given one and the key has not been
\* cleared or expired-on-load since.
HasExpiration(key) == entries[key].present /\ entries[key].expire # None

C2_ExpiryFileIffExpiration ==
  \A key \in Keys : isfile(fs, expire_path(key)) <=> HasExpiration(key)

\* C3: load(k) of a key whose expiry file holds timestamp e and whose value
\* file holds v returns None exactly when the clock reads more than e, and
\* returns v when the clock reads e or less.
C3_ExpirationBoundary ==
  [][\A key \in Keys, e \in 0..MaxExpire :
       ( /\ LoadStep(key)
         /\ isfile(fs, key_path(key))
         /\ isfile(fs, expire_path(key))
         /\ fs.files[expire_path(key)] = Str(e) )
         => /\ last'.status = "ok"
            /\ (now > ClockRes * e) => last'.ret = None
            /\ (now <= ClockRes * e) => last'.ret = Some(fs.files[key_path(key)])]_vars

C3_Witness ==
  /\ last.op = "load" /\ last.key = "a" /\ last.ret = Some(<<"0", "1">>)
  /\ isfile(fs, expire_path("a")) /\ fs.files[expire_path("a")] = Str(1)
  /\ now = ClockRes * 1

\* C4: a load(k) that finds the expiry timestamp of k strictly in the past
\* returns None and leaves the directory as clear(k) would: neither the
\* value file nor the expiry file of k exists afterwards.
C4_LazyExpiration ==
  [][\A key \in Keys, e \in 0..MaxExpire :
       ( /\ LoadStep(key)
         /\ isfile(fs, expire_path(key))
         /\ fs.files[expire_path(key)] = Str(e)
         /\ now > ClockRes * e )
         => /\ last'.status = "ok" /\ last'.ret = None
            /\ fs' = clear(fs, key).fs
            /\ ~path_exists(fs', key_path(key))
            /\ ~path_exists(fs', expire_path(key))]_vars

C4_Witness ==
  /\ last.op = "load" /\ last.branch = "expired" /\ last.after = "save_expiring"
  /\ last.ret = None

\* C5: after save(k, v1, e) followed by save(k, v2) with no expiration the
\* expiry file of k is absent, and load(k) returns v2 at every later time
\* for as long as k is not saved or cleared again.
C5_OverwriteClearsExpiration ==
  [][\A key \in Keys :
       /\ ( /\ last.op = "save" /\ last.key = key /\ last.expire # None
            /\ last'.op = "save" /\ \E value \in Values : Save(key, value, None) )
            => ~path_exists(fs', expire_path(key))
       /\ (entries[key].present /\ entries[key].over /\ LoadStep(key))
            => (last'.status = "ok" /\ last'.ret = Some(entries[key].value))]_vars

\* C6: clear(k) on a key with neither file succeeds and changes nothing; a
\* second clear(k) changes nothing; after clear(k) the key loads as None.
C6_IdempotentClear ==
  [][\A key \in Keys :
       /\ (ClearStep(key) /\ ~isfile(fs, key_path(key)) /\ ~isfile(fs, expire_path(key)))
            => (last'.status = "ok" /\ fs' = fs)
       /\ (ClearStep(key) /\ last.op = "clear" /\ last.key = key)
            => (last'.status = "ok" /\ fs' = fs)
       /\ (LoadStep(key) /\ last.op = "clear" /\ last.key = key)
            => (last'.status = "ok" /\ last'.ret = None /\ fs' = fs)]_vars

C6_Witness ==
  last.op = "clear" /\ last.after = "clear" /\ last.status = "ok"

\* C7: constructing on an existing directory with no marker and at least
\* one regular file raises FileStorageException; on a missing or an empty
\* directory it succeeds and creates the marker; on a directory holding the
\* marker it succeeds whatever else the directory holds.
C7_InitAcceptReject ==
  [][InitStep =>
       /\ (fs.exists /\ dotfile \notin DOMAIN fs.files /\ DOMAIN fs.files # {})
            => last'.status = "FileStorageException"
       /\ (~fs.exists \/ (DOMAIN fs.files = {} /\ fs.subdirs = {}))
            => (last'.status = "ok" /\ isfile(fs', dotfile))
       /\ (fs.exists /\ dotfile \in DOMAIN fs.files)
            => last'.status = "ok"]_vars

C7_Witness ==
  /\ last.op = "init" /\ last.status = "FileStorageException"
  /\ fs.exists /\ ~isfile(fs, dotfile) /\ isfile(fs, key_path("a"))

\* C8 as stated: a successful construction found the directory missing,
\* without any entry at all, or holding the marker.
C8_ClaimedOnlyIfNoEntries ==
  [][(InitStep /\ last'.status = "ok")
       => (~fs.exists \/ (DOMAIN fs.files = {} /\ fs.subdirs = {})
             \/ dotfile \in DOMAIN fs.files)]_vars

\* C8 amended: a successful construction found the directory missing,
\* without any regular file (subdirectories may be there), or holding the
\* marker; a directory with a regular file and no marker is never claimed.
C8_ClaimedOnlyIfNoRegularFiles ==
  [][(InitStep /\ last'.status = "ok")
       => (~fs.exists \/ DOMAIN fs.files = {} \/ dotfile \in DOMAIN fs.files)]_vars

C8_Witness ==
  /\ last.op = "init" /\ last.status = "ok" /\ last.branch = "claimed"
  /\ fs.subdirs # {}

\* C9: a construction that raises FileStorageException leaves the directory
\* as it was: no file deleted, no marker created, permission bits unchanged.
C9_FailedInitNoEffect ==
  [][(InitStep /\ last'.status = "FileStorageException")
       => (fs' = fs /\ handle' = handle)]_vars

C9_Witness ==
  /\ last.op = "init" /\ last.status = "FileStorageException"
  /\ fs.mode # OwnerOnly /\ ~isfile(fs, dotfile)

\* C10: after every successful construction the directory exists with
\* permission bits 0700 and holds the marker; the files a re-opened
\* directory held are left as they were.
C10_InitPostcondition ==
  [][(InitStep /\ last'.status = "ok")
       => /\ fs'.exists /\ fs'.mode = OwnerOnly /\ isfile(fs', dotfile)
          /\ DOMAIN fs'.files = DOMAIN fs.files \cup {dotfile}
          /\ \A p \in DOMAIN fs.files : fs'.files[p] = fs.files[p]
          /\ fs'.subdirs = fs.subdirs]_vars

C10_Witness ==
  /\ last.op = "init" /\ last.status = "ok" /\ last.branch = "reopened"
  /\ isfile(fs, key_path("a")) /\ isfile(fs, expire_path("a"))

\* C11: clear_all_keys removes every regular file of the directory, the
\* marker and all value and expiry files included, and leaves the
\* subdirectories; afterwards every key loads as None, and a second
\* clear_all_keys changes nothing.
C11_ClearAllRemovesFiles ==
  [][/\ ClearAllStep
          => /\ last'.status = "ok"
             /\ DOMAIN fs'.files = {}
             /\ fs'.subdirs = fs.subdirs /\ fs'.exists /\ fs'.mode = fs.mode
     /\ \A key \in Keys :
          (last.op = "clear_all_keys" /\ LoadStep(key))
            => (last'.status = "ok" /\ last'.ret = None)
     /\ (last.op = "clear_all_keys" /\ ClearAllStep) => fs' = fs]_vars

C11_Witness ==
  /\ last.op = "clear_all_keys" /\ last.branch = "all"
  /\ fs.subdirs # {} /\ DOMAIN fs.files = {}

\* C12: the byte total of size() is the sum of the sizes of all regular
\* files of the directory (value files, expiry files, marker); right after
\* save(k, v) it is at least the length of v, right after clear_all_keys it
\* is 0.
FileNames == {dotfile} \cup {key_path(k) : k \in Keys} \cup {expire_path(k) : k \in Keys}

BytesAt(p) == IF isfile(fs, p) THEN Len(fs.files[p]) ELSE 0

RECURSIVE BytesIn(_)
BytesIn(ps) ==
  IF ps = {} THEN 0
  ELSE LET p == CHOOSE q \in ps : TRUE IN BytesAt(p) + BytesIn(ps \ {p})

C12_SizeAccounting ==
  [][SizeStep
       => /\ last'.status = "ok" /\ fs' = fs
          /\ DOMAIN fs.files \subseteq FileNames
          /\ last'.total = BytesIn(FileNames)
          /\ last.op = "save" => last'.total >= Len(last.value)
          /\ last.op = "clear_all_keys" => last'.total = 0]_vars

C12_Witness ==
  /\ last.op = "size" /\ last.after = "save_expiring" /\ last.total = 3
  /\ isfile(fs, dotfile)

\* C13: load never raises: for every key it completes, returning None when
\* the key has no value file.
C13_LoadNeverRaises ==
  last.op = "load"
    => /\ last.status = "ok"
       /\ ~isfile(fs, key_path(last.key)) => last.ret = None

\* C16: save, load and clear on a key never change the value file or the
\* expiry file of another key.
SameFile(p) ==
  /\ isfile(fs', p) <=> isfile(fs, p)
  /\ isfile(fs, p) => fs'.files[p] = fs.files[p]

C16_KeyIsolation ==
  [][\A key \in Keys :
       (SaveStep(key) \/ LoadStep(key) \/ ClearStep(key))
         => \A other \in Keys \ {key} :
              SameFile(key_path(other)) /\ SameFile(expire_path(other))]_vars

\* C17: once a construction has succeeded, whatever save, load, clear and
\* clear_all_keys calls follow, a new construction on the directory succeeds.
C17_OwnershipSurvivesUse ==
  [][(InitStep /\ handle) => last'.status = "ok"]_vars

\* C18: load(k) changes the directory only when the expiry file of k exists
\* and the clock reads more than its timestamp, and then it removes the
\* value file and the expiry file of k and nothing else.
C18_LoadPureUnlessExpired ==
  [][\A key \in Keys :
       LoadStep(key)
         => /\ fs' # fs
                 => /\ isfile(fs, expire_path(key))
                    /\ IsIntText(fs.files[expire_path(key)])
                    /\ now > ClockRes * IntOf(fs.files[expire_path(key)])
                    /\ DOMAIN fs'.files = DOMAIN fs.files \ {key_path(key), expire_path(key)}
            /\ \A p \in DOMAIN fs'.files : p \in DOMAIN fs.files /\ fs'.files[p] = fs.files[p]
            /\ fs'.subdirs = fs.subdirs /\ fs'.mode = fs.mode /\ fs'.exists = fs.exists]_vars

C18_Witness ==
  /\ last.op = "load" /\ last.branch = "expired" /\ last.after = "save_expiring"
  /\ isfile(fs, dotfile) /\ ~isfile(fs, key_path(last.key))

\* C19: once a load(k) has returned None because the expiration of k had
\* passed, every later load(k) returns None until the next save(k, ...),
\* whatever the clock reads; an entry whose expiration has passed but that
\* was not loaded keeps both files, and size() counts them.
C19_ExpiryIsSticky ==
  [][/\ \A key \in Keys :
          (entries[key].lapsed /\ LoadStep(key))
            => (last'.status = "ok" /\ last'.ret = None)
     /\ \A e \in 1..MaxExpire :
          (last.op = "save" /\ last.expire = Some(Str(e)) /\ now > ClockRes * e)
            => /\ isfile(fs, key_path(last.key)) /\ isfile(fs, expire_path(last.key))
               /\ SizeStep => last'.total >= Len(last.value) + Len(Str(e))]_vars

\* C15: over keys that do not collide, the store behaves as a map from key
\* to (value, optional expiry): save sets the entry, clear removes it,
\* clear_all_keys removes all, load removes and reports None an entry whose
\* expiry is less than the clock reading and otherwise returns the value of
\* the entry or None; the files correspond to the map in every state.
MapSave(m, key, value, expire) == [m EXCEPT ![key] = Entry(value, expire, FALSE)]

MapClear(m, key) == [m EXCEPT ![key] = NoEntry]

MapClearAll(m) == [k \in DOMAIN m |-> NoEntry]

ExpiryOf(text) == CHOOSE e \in 0..MaxExpire : Str(e) = text

MapLoad(m, key, t) ==
  IF m[key].present /\ m[key].expire # None /\ t > ClockRes * ExpiryOf(m[key].expire.val)
  THEN [map |-> MapClear(m, key), ret |-> None]
  ELSE [map |-> m, ret |-> IF m[key].present THEN Some(m[key].value) ELSE None]

FilesMatchMap(d, m) ==
  \A k \in MapKeys :
    /\ isfile(d, key_path(k)) <=> m[k].present
    /\ m[k].present => d.files[key_path(k)] = m[k].value
    /\ isfile(d, expire_path(k)) <=> (m[k].present /\ m[k].expire # None)
    /\ isfile(d, expire_path(k))
         => (d.files[expire_path(k)] = m[k].expire.val /\ m[k].expire.val \in ExpireTexts)

C15_RefinesMap ==
  [][/\ \A key \in MapKeys :
          /\ (last'.op = "save" /\ last'.key = key /\ Save(key, last'.value, last'.expire))
               => entries' = MapSave(entries, key, last'.value, last'.expire)
          /\ ClearStep(key) => entries' = MapClear(entries, key)
          /\ LoadStep(key)
               => /\ last'.status = "ok"
                  /\ last'.ret = MapLoad(entries, key, now).ret
                  /\ entries' = MapLoad(entries, key, now).map
     /\ ClearAllStep => entries' = MapClearAll(entries)
     /\ (InitStep \/ SizeStep) => entries' = entries
     /\ FilesMatchMap(fs, entries) /\ FilesMatchMap(fs', entries')]_vars

C15_Witness ==
  /\ last.op = "load" /\ last.key = "a" /\ last.branch = "expired"
  /\ last.after = "save_expiring"
  /\ entries["b"].present /\ entries["b"].expire # None /\ isfile(fs, expire_path("b"))

\* C14: when save(k, v1, e) and save(k, v2) without expiration run
\* unserialized on one directory, they can end with the value file holding
\* v2 and the expiry file holding e, a pair neither serial order leaves.
KeyFiles(d, key) ==
  [value |-> IF isfile(d, key_path(key)) THEN Some(d.files[key_path(key)]) ELSE None,
   expire |-> IF isfile(d, expire_path(key)) THEN Some(d.files[expire_path(key)]) ELSE None]

Serial(first, second) ==
  KeyFiles(save(save(fs, first.key, first.value, first.expire).fs,
                second.key, second.value, second.expire).fs, first.key)

ExpiringAndPlainSaveDone(A, B) ==
  /\ A # B
  /\ procs[A].op = "save" /\ procs[A].expire # None /\ procs[A].pc = "done"
  /\ procs[B].op = "save" /\ procs[B].expire = None /\ procs[B].pc = "done"
  /\ procs[A].key = procs[B].key /\ procs[A].value # procs[B].value

CorruptPair(A, B) ==
  KeyFiles(fs, procs[A].key) = [value |-> Some(procs[B].value), expire |-> procs[A].expire]

C14_CorruptPairIsNotSerial ==
  \A A \in DOMAIN procs, B \in DOMAIN procs :
    (ExpiringAndPlainSaveDone(A, B) /\ CorruptPair(A, B))
      => /\ KeyFiles(fs, procs[A].key) # Serial(procs[A], procs[B])
         /\ KeyFiles(fs, procs[A].key) # Serial(procs[B], procs[A])

C14_Witness ==
  \E A \in DOMAIN procs, B \in DOMAIN procs :
    /\ ExpiringAndPlainSaveDone(A, B) /\ CorruptPair(A, B)
    /\ procs[A].status = "ok" /\ procs[B].status = "ok"

\* C20 as stated: a load(k) that runs while save(k, v2) overwrites a value
\* v1 without expiration returns v1 or v2.
LoadDuringOverwrite(L, S) ==
  /\ procs[L].op = "load" /\ procs[L].pc = "done"
  /\ procs[S].op = "save" /\ procs[S].expire = None /\ procs[S].key = procs[L].key
  /\ procs[L].before.present /\ procs[L].before.expire = None

C20_NoTornReads ==
  \A L \in DOMAIN procs, S \in DOMAIN procs :
    LoadDuringOverwrite(L, S)
      => /\ procs[L].status = "ok"
         /\ procs[L].ret \in {Some(procs[L].before.value), Some(procs[S].value)}

\* C20 amended: that load never raises and never returns None; the text it
\* returns is put together from what the value file holds at each of its
\* reads: at every position it has the character v1 or v2 has there.  It
\* can be empty, a part of v1 or of v2, or a mix of the two.
PiecedFrom(t, v1, v2) ==
  \A i \in 1..Len(t) :
    \/ i <= Len(v1) /\ t[i] = v1[i]
    \/ i <= Len(v2) /\ t[i] = v2[i]

C20_LoadNeverAbsent ==
  \A L \in DOMAIN procs, S \in DOMAIN procs :
    LoadDuringOverwrite(L, S)
      => /\ procs[L].status = "ok"
         /\ procs[L].ret.some
         /\ PiecedFrom(procs[L].ret.val, procs[L].before.value, procs[S].value)

C20_Witness ==
  \E L \in DOMAIN procs, S \in DOMAIN procs :
    /\ LoadDuringOverwrite(L, S)
    /\ procs[L].ret.some
    /\ procs[L].ret.val \notin {procs[L].before.value, procs[S].value}

====
